---- MODULE Spec2Model ----
(***************************************************************************)
(* sbpl_geometry_utils: InterpolatePath (src/src/interpolation.cpp) and    *)
(* ShortcutPath (src/include/sbpl_geometry_utils/utils.h).                 *)
(*                                                                         *)
(* Angles live on an integer grid whose unit is pi/4, so that M_PI is 4    *)
(* and a full turn is 8.  Increments are whole grid units; an increment    *)
(* of 3 does not divide the turn, which is what makes a joint arrive at a  *)
(* remaining gap smaller than its increment.                               *)
(***************************************************************************)
EXTENDS Integers, Sequences, FiniteSets, TLC

Pi == 4
FullTurn == 2 * Pi
Eps == 1

\* ---- bounds of the model ----
MaxDim == 2
MaxAngle == 5
MaxInc == 3
MaxPath == 3
MaxCost == 2
MaxGens == 2
MaxGran == 3
MaxGenCost == 2
MaxIters == 3

VARIABLES
    \* InterpolatePath: arguments
    start, end, min_limits, max_limits, inc, continuous_joints,
    path, path_before,
    \* InterpolatePath: locals
    start_norm, end_norm, travel_dirs, max_iterations, curr_cfg, c,
    ipc, iret,
    \* ShortcutPath: arguments
    orig_path, orig_path_costs, path_generators, granularity,
    shortcut_path, shortcut_before,
    \* ShortcutPath: locals
    accum_point_costs, result_traj, curr_start, last_end, curr_end,
    start_index, end_index, cost_improved, best_path, best_cost, it,
    spc, sret,
    \* ShortcutPath: what an observer of one call records
    gen_calls, commits, committed_cost, chained

ivars == <<start, end, min_limits, max_limits, inc, continuous_joints,
           path, path_before, start_norm, end_norm, travel_dirs,
           max_iterations, curr_cfg, c, ipc, iret>>

svars == <<orig_path, orig_path_costs, path_generators, granularity,
           shortcut_path, shortcut_before, accum_point_costs, result_traj,
           curr_start, last_end, curr_end, start_index, end_index,
           cost_improved, best_path, best_cost, it, spc, sret,
           gen_calls, commits, committed_cost, chained>>

vars == <<ivars, svars>>

\* ---- scalar helpers ----
Abs(x) == IF x < 0 THEN -x ELSE x

Max(a, b) == IF a > b THEN a ELSE b

Sign(val) == IF val > 0 THEN 1 ELSE IF val < 0 THEN -1 ELSE 0

\* ceil(a / b) for a >= 0, b > 0
Ceil(a, b) == (a + b - 1) \div b

\* shifts angle by whole multiples of (hi - lo) into [lo, hi)
NormalizeAngle(angle_rad, angle_min_rad, angle_max_rad) ==
    angle_min_rad + ((angle_rad - angle_min_rad) % (angle_max_rad - angle_min_rad))

\* signed rotation from a2 to a1 along the minor arc, in [-pi, pi]
ShortestAngleDiff(a1_rad, a2_rad) ==
    LET d == (a1_rad - a2_rad) % FullTurn
    IN  IF d <= Pi THEN d ELSE d - FullTurn

\* unsigned length of the minor arc between two angles
ShortestAngleDist(a, b) == Abs(ShortestAngleDiff(a, b))

\* ---- NormalizeAnglesIntoRange ----
NormalizedAngles(angles, mins) ==
    [i \in 1..Len(angles) |->
        NormalizeAngle(angles[i], mins[i], NormalizeAngle(mins[i], 0, FullTurn))]

NormalizeAnglesIntoRangeOk(angles, mins, maxs) ==
    /\ Len(mins) = Len(angles)
    /\ Len(maxs) = Len(angles)
    /\ \A i \in 1..Len(angles) : ~(mins[i] > maxs[i])
    /\ \A i \in 1..Len(angles) :
          LET a == NormalizedAngles(angles, mins)[i]
          IN  ~(a < mins[i] \/ a > maxs[i])

\* ---- InterpolatePath ----
DimsMatch ==
    LET dim == Len(start)
    IN  ~(dim # Len(end) \/ dim # Len(inc) \/ dim # Len(min_limits)
          \/ dim # Len(max_limits) \/ dim # Len(continuous_joints))

\* the minor arc from s towards e leaves [lo, hi]
CrossesLimit(s, e, lo, hi) ==
    LET angle_diff == ShortestAngleDiff(e, s)
    IN  s + angle_diff > hi \/ s + angle_diff < lo

TravelDir(s, e, lo, hi, cont) ==
    LET angle_diff == ShortestAngleDiff(e, s)
    IN  IF cont THEN Sign(angle_diff)
        ELSE IF CrossesLimit(s, e, lo, hi) THEN -Sign(angle_diff)
        ELSE Sign(angle_diff)

MaxItersForAngle(s, e, lo, hi, step) ==
    LET angle_diff == ShortestAngleDiff(e, s)
        angle_dist == IF CrossesLimit(s, e, lo, hi)
                      THEN FullTurn - Abs(angle_diff)
                      ELSE Abs(angle_diff)
    IN  IF Abs(e - s) < Eps THEN 1
        ELSE IF Abs(e - s) <= step THEN 1
        ELSE Ceil(angle_dist, step)

RECURSIVE MaxOver(_, _)
MaxOver(f, n) == IF n = 0 THEN 0 ELSE Max(MaxOver(f, n - 1), f[n])

\* the move of one joint in one iteration, before the re-wrap
Moved(cur, tgt, dir, step) ==
    LET anglediff == ShortestAngleDiff(cur, tgt)
    IN  IF Abs(anglediff) < step THEN cur + anglediff
        ELSE cur + dir * step

\* the two re-wrap tests, one after the other
Wrapped(v, lo, hi) ==
    LET v1 == IF v > hi THEN v - FullTurn ELSE v
    IN  IF v1 < lo THEN v1 + FullTurn ELSE v1

StepJoint(cur, tgt, dir, step, lo, hi) ==
    Wrapped(Moved(cur, tgt, dir, step), lo, hi)

\* ---- inputs ----
Limits == { <<-4, 4>>, <<-2, 6>>, <<-4, 0>>, <<-2, 2>>, <<-4, 6>>, <<-2, -3>> }

RichJoint ==
    [s : (-MaxAngle)..MaxAngle, e : (-MaxAngle)..MaxAngle, lim : Limits,
     step : 1..MaxInc, cont : BOOLEAN]

CompanionJoint ==
    [s : {0}, e : {0, 3}, lim : { <<-4, 4>> }, step : {1}, cont : {FALSE}]

OldPaths == { <<>>, << <<1>>, <<2>> >> }

Fill(n, v) == [k \in 1..n |-> v]

InitMatched ==
    \E d \in 1..MaxDim, j1 \in RichJoint, jr \in CompanionJoint :
        LET J(k) == IF k = 1 THEN j1 ELSE jr
        IN  /\ start = [k \in 1..d |-> J(k).s]
            /\ end = [k \in 1..d |-> J(k).e]
            /\ min_limits = [k \in 1..d |-> J(k).lim[1]]
            /\ max_limits = [k \in 1..d |-> J(k).lim[2]]
            /\ inc = [k \in 1..d |-> J(k).step]
            /\ continuous_joints = [k \in 1..d |-> J(k).cont]

InitAnyLengths ==
    \E ls \in [1..6 -> 0..MaxDim] :
        /\ start = Fill(ls[1], 0)
        /\ end = Fill(ls[2], 2)
        /\ min_limits = Fill(ls[3], -4)
        /\ max_limits = Fill(ls[4], 4)
        /\ inc = Fill(ls[5], 1)
        /\ continuous_joints = Fill(ls[6], FALSE)

InitInterp ==
    /\ InitMatched \/ InitAnyLengths
    /\ path \in OldPaths
    /\ path_before = path
    /\ start_norm = <<>>
    /\ end_norm = <<>>
    /\ travel_dirs = <<>>
    /\ max_iterations = 0
    /\ curr_cfg = <<>>
    /\ c = 0
    /\ ipc = "call"
    /\ iret = "none"

\* no ShortcutPath call is in progress
ShortcutIdle ==
    /\ orig_path = <<>> /\ orig_path_costs = <<>>
    /\ path_generators = 0 /\ granularity = 1
    /\ shortcut_path = <<>> /\ shortcut_before = <<>>
    /\ accum_point_costs = <<>> /\ result_traj = <<>>
    /\ curr_start = 0 /\ last_end = 0 /\ curr_end = 0
    /\ start_index = 0 /\ end_index = 0
    /\ cost_improved = FALSE /\ best_path = <<>> /\ best_cost = 0 /\ it = 0
    /\ spc = "idle" /\ sret = "none"
    /\ gen_calls = 0 /\ commits = 0 /\ committed_cost = 0 /\ chained = TRUE

iargs == <<start, end, min_limits, max_limits, inc, continuous_joints, path_before>>

\* the dimension check placed ahead of path.clear()
IP_DimMismatch_KeepsOutput ==
    /\ ipc = "call"
    /\ ~DimsMatch
    /\ start_norm' = start
    /\ end_norm' = end
    /\ ipc' = "done"
    /\ iret' = "false"
    /\ UNCHANGED <<svars, iargs, path, travel_dirs, max_iterations, curr_cfg, c>>

\* lines 78-90: clear the output, then reject mismatched dimensions
IP_DimMismatch ==
    /\ ipc = "call"
    /\ ~DimsMatch
    /\ path' = <<>>
    /\ start_norm' = start
    /\ end_norm' = end
    /\ ipc' = "done"
    /\ iret' = "false"
    /\ UNCHANGED <<svars, iargs, travel_dirs, max_iterations, curr_cfg, c>>

\* lines 92-98: limits that make no sense, or a start/end that cannot be normalized
IP_NormalizeFails ==
    /\ ipc = "call"
    /\ DimsMatch
    /\ \/ ~NormalizeAnglesIntoRangeOk(start, min_limits, max_limits)
       \/ ~NormalizeAnglesIntoRangeOk(end, min_limits, max_limits)
    /\ path' = <<>>
    /\ start_norm' = start
    /\ end_norm' = end
    /\ ipc' = "done"
    /\ iret' = "false"
    /\ UNCHANGED <<svars, iargs, travel_dirs, max_iterations, curr_cfg, c>>

\* lines 78-145: validation passes; directions, iteration count, first waypoint
IP_Begin ==
    /\ ipc = "call"
    /\ DimsMatch
    /\ NormalizeAnglesIntoRangeOk(start, min_limits, max_limits)
    /\ NormalizeAnglesIntoRangeOk(end, min_limits, max_limits)
    /\ LET dim == Len(start)
           sn == NormalizedAngles(start, min_limits)
           en == NormalizedAngles(end, min_limits)
           its == [i \in 1..dim |->
                     MaxItersForAngle(sn[i], en[i], min_limits[i], max_limits[i], inc[i])]
       IN  /\ start_norm' = sn
           /\ end_norm' = en
           /\ travel_dirs' = [i \in 1..dim |->
                 TravelDir(sn[i], en[i], min_limits[i], max_limits[i], continuous_joints[i])]
           /\ max_iterations' = MaxOver(its, dim)
           /\ curr_cfg' = sn
           /\ path' = <<sn>>
    /\ c' = 0
    /\ ipc' = "loop"
    /\ UNCHANGED <<svars, iargs, iret>>

\* lines 146-171: one iteration of the interpolation loop
IP_Step ==
    /\ ipc = "loop"
    /\ c < max_iterations
    /\ curr_cfg' = [i \in 1..Len(curr_cfg) |->
          StepJoint(curr_cfg[i], end_norm[i], travel_dirs[i], inc[i],
                    min_limits[i], max_limits[i])]
    /\ path' = Append(path, curr_cfg')
    /\ c' = c + 1
    /\ UNCHANGED <<svars, iargs, start_norm, end_norm, travel_dirs, max_iterations, ipc, iret>>

\* line 173
IP_Return ==
    /\ ipc = "loop"
    /\ ~(c < max_iterations)
    /\ ipc' = "done"
    /\ iret' = "true"
    /\ UNCHANGED <<svars, iargs, path, start_norm, end_norm, travel_dirs,
                   max_iterations, curr_cfg, c>>

NextInterp ==
    \/ IP_DimMismatch
    \/ IP_NormalizeFails
    \/ IP_Begin
    \/ IP_Step
    \/ IP_Return

InitInterpolatePath == InitInterp /\ ShortcutIdle

SpecInterp == InitInterpolatePath /\ [][NextInterp]_vars

\* ---- ShortcutPath ----
\* The points of the original path are 1..N; 0 is a point only a generator
\* produces.  Iterators into orig_path are 0-based positions, N is end().

Last(q) == q[Len(q)]

PopBack(q) == SubSeq(q, 1, Len(q) - 1)

RECURSIVE Accum(_, _)
\* accum_point_costs[i] of the code, for the 0-based index i
Accum(costs, i) == IF i = 0 THEN 0 ELSE Accum(costs, i - 1) + costs[i]

\* the size test skipped for an empty path
CostsMatch_EmptyPathPasses ==
    Len(orig_path) = 0 \/ ~(Len(orig_path) # Len(orig_path_costs) + 1)

\* one cost per point transition
CostsMatch == ~(Len(orig_path) # Len(orig_path_costs) + 1)

\* the 0-based reads of the code
At(pos) == orig_path[pos + 1]

Acc(i) == accum_point_costs[i + 1]

\* cost_acceptable implementing "<="
leq(a, b) == a <= b

\* what generate_path(a, b, path, cost) can answer
GenOutcomes(a, b) ==
    { [found |-> FALSE, path |-> <<>>, cost |-> 0] }
    \cup [found : {TRUE}, path : { <<a, b>>, <<a, 0, b>> }, cost : 0..MaxGenCost]

RECURSIVE CostSeries(_)
CostSeries(n) ==
    IF n = 0 THEN { <<>> }
    ELSE { Append(q, k) : q \in CostSeries(n - 1), k \in 1..MaxCost }

OldShortcuts == { <<>>, <<7, 8>> }

InterpIdle ==
    /\ start = <<>> /\ end = <<>> /\ min_limits = <<>> /\ max_limits = <<>>
    /\ inc = <<>> /\ continuous_joints = <<>>
    /\ path = <<>> /\ path_before = <<>>
    /\ start_norm = <<>> /\ end_norm = <<>> /\ travel_dirs = <<>>
    /\ max_iterations = 0 /\ curr_cfg = <<>> /\ c = 0
    /\ ipc = "idle" /\ iret = "none"

InitShortcut ==
    /\ \E n \in 0..MaxPath, m \in 0..MaxPath :
          /\ orig_path = [k \in 1..n |-> k]
          /\ orig_path_costs \in CostSeries(m)
    /\ path_generators \in 0..MaxGens
    /\ granularity \in 1..MaxGran
    /\ shortcut_path \in OldShortcuts
    /\ shortcut_before = shortcut_path
    /\ accum_point_costs = <<>> /\ result_traj = <<>>
    /\ curr_start = 0 /\ last_end = 0 /\ curr_end = 0
    /\ start_index = 0 /\ end_index = 0
    /\ cost_improved = FALSE /\ best_path = <<>> /\ best_cost = 0 /\ it = 0
    /\ spc = "call" /\ sret = "none"
    /\ gen_calls = 0 /\ commits = 0 /\ committed_cost = 0 /\ chained = TRUE

sargs == <<orig_path, orig_path_costs, path_generators, granularity, shortcut_before>>

slocals == <<accum_point_costs, result_traj, curr_start, last_end, curr_end,
             start_index, end_index, cost_improved, best_path, best_cost, it>>

observed == <<gen_calls, commits, committed_cost, chained>>

\* lines 91-94
SC_BadCosts ==
    /\ spc = "call"
    /\ ~CostsMatch
    /\ spc' = "done"
    /\ sret' = "false"
    /\ UNCHANGED <<ivars, sargs, shortcut_path, slocals, observed>>

\* lines 96-99
SC_Trivial ==
    /\ spc = "call"
    /\ CostsMatch
    /\ Len(orig_path) < 2
    /\ spc' = "done"
    /\ sret' = "true"
    /\ UNCHANGED <<ivars, sargs, shortcut_path, slocals, observed>>

\* lines 101-125
SC_Begin ==
    /\ spc = "call"
    /\ CostsMatch
    /\ ~(Len(orig_path) < 2)
    /\ accum_point_costs' = [k \in 1..Len(orig_path) |-> Accum(orig_path_costs, k - 1)]
    /\ result_traj' = <<>>
    /\ curr_start' = 0
    /\ last_end' = 0
    /\ curr_end' = 1
    /\ start_index' = 0
    /\ end_index' = 1
    /\ cost_improved' = FALSE
    /\ best_path' = <<At(0), At(1)>>
    /\ best_cost' = Accum(orig_path_costs, 1) - Accum(orig_path_costs, 0)
    /\ spc' = "while"
    /\ UNCHANGED <<ivars, sargs, shortcut_path, it, sret, observed>>

\* lines 127-132: the loop test passes, the round over the generators begins
SC_EnterLoop ==
    /\ spc = "while"
    /\ curr_end # Len(orig_path)
    /\ commits < MaxIters
    /\ cost_improved' = FALSE
    /\ it' = 1
    /\ spc' = "for"
    /\ UNCHANGED <<ivars, sargs, shortcut_path, accum_point_costs, result_traj,
                   curr_start, last_end, curr_end, start_index, end_index,
                   best_path, best_cost, sret, observed>>

\* lines 132-143: one generator is asked for a path across the window
SC_Generate ==
    /\ spc = "for"
    /\ it <= path_generators
    /\ \E g \in GenOutcomes(At(curr_start), At(curr_end)) :
          IF g.found /\ leq(g.cost, best_cost + Acc(end_index) - Acc(end_index - 1))
          THEN /\ cost_improved' = TRUE
               /\ best_cost' = g.cost
               /\ best_path' = g.path
          ELSE UNCHANGED <<cost_improved, best_cost, best_path>>
    /\ it' = it + 1
    /\ gen_calls' = gen_calls + 1
    /\ UNCHANGED <<ivars, sargs, shortcut_path, accum_point_costs, result_traj,
                   curr_start, last_end, curr_end, start_index, end_index,
                   spc, sret, commits, committed_cost, chained>>

\* lines 145-164: some generator improved the candidate, the window grows
SC_Grow ==
    /\ spc = "for"
    /\ it > path_generators
    /\ cost_improved
    /\ LET dist_to_end == Len(orig_path) - curr_end
       IN  IF dist_to_end = 1
           THEN /\ curr_end' = Len(orig_path)
                /\ last_end' = Len(orig_path) - 1
                /\ end_index' = Len(orig_path)
           ELSE IF dist_to_end < granularity
           THEN /\ curr_end' = curr_end + (dist_to_end - 1)
                /\ last_end' = last_end + (dist_to_end - 1)
                /\ end_index' = end_index + (dist_to_end - 1)
           ELSE /\ curr_end' = curr_end + granularity
                /\ last_end' = last_end + granularity
                /\ end_index' = end_index + granularity
    /\ spc' = "while"
    /\ UNCHANGED <<ivars, sargs, shortcut_path, accum_point_costs, result_traj,
                   curr_start, start_index, cost_improved, best_path, best_cost,
                   it, sret, observed>>

\* lines 165-179: no generator improved the candidate, it is committed
SC_Commit ==
    /\ spc = "for"
    /\ it > path_generators
    /\ ~cost_improved
    /\ result_traj' = (IF result_traj # <<>> THEN PopBack(result_traj) ELSE result_traj)
                      \o best_path
    /\ curr_start' = last_end
    /\ start_index' = end_index - 1
    /\ cost_improved' = FALSE
    /\ best_path' = <<At(last_end), At(curr_end)>>
    /\ best_cost' = Acc(end_index) - Acc(end_index - 1)
    /\ commits' = commits + 1
    /\ committed_cost' = committed_cost + best_cost
    /\ chained' = (chained /\ (result_traj = <<>> \/ Last(result_traj) = best_path[1]))
    /\ spc' = "while"
    /\ UNCHANGED <<ivars, sargs, shortcut_path, accum_point_costs, last_end,
                   curr_end, end_index, it, sret, gen_calls>>

\* lines 182-188: the loop test fails, the last candidate is committed
SC_Finish ==
    /\ spc = "while"
    /\ curr_end = Len(orig_path)
    /\ result_traj' = (IF result_traj # <<>> THEN PopBack(result_traj) ELSE result_traj)
                      \o best_path
    /\ shortcut_path' = result_traj'
    /\ commits' = commits + 1
    /\ committed_cost' = committed_cost + best_cost
    /\ chained' = (chained /\ (result_traj = <<>> \/ Last(result_traj) = best_path[1]))
    /\ spc' = "done"
    /\ sret' = "true"
    /\ UNCHANGED <<ivars, sargs, accum_point_costs, curr_start, last_end, curr_end,
                   start_index, end_index, cost_improved, best_path, best_cost,
                   it, gen_calls>>

NextShortcut ==
    \/ SC_BadCosts
    \/ SC_Trivial
    \/ SC_Begin
    \/ SC_EnterLoop
    \/ SC_Generate
    \/ SC_Grow
    \/ SC_Commit
    \/ SC_Finish

InitShortcutPath == InitShortcut /\ InterpIdle

SpecShortcut == InitShortcutPath /\ [][NextShortcut]_vars

\* ---- properties of InterpolatePath ----
Succeeded == ipc = "done" /\ iret = "true"

Interpolating == ipc = "loop" \/ Succeeded

LengthsDiffer ==
    \/ Len(end) # Len(start)
    \/ Len(min_limits) # Len(start)
    \/ Len(max_limits) # Len(start)
    \/ Len(inc) # Len(start)
    \/ Len(continuous_joints) # Len(start)

\* C1: a successful call returns a path whose first point is the normalized
\* start and whose last point is the normalized end in every joint (compared
\* as angles, so a value one full turn away from the target still counts).
C1_EndsOnTarget ==
    Succeeded =>
        /\ path[1] = start_norm
        /\ \A i \in 1..Len(end_norm) :
              (path[Len(path)][i] - end_norm[i]) % FullTurn = 0

\* C4: every joint value of every waypoint produced lies within that joint's
\* [min_limits[i], max_limits[i]], whatever the width of the range and whether
\* or not the joint is continuous.
C4_WaypointsWithinLimits ==
    Interpolating =>
        \A k \in 1..Len(path) : \A i \in 1..Len(end_norm) :
            path[k][i] >= min_limits[i] /\ path[k][i] <= max_limits[i]

\* C5: for each joint the unsigned angular gap to the normalized target never
\* increases from one waypoint to the next.
C5_GapNeverIncreases ==
    Interpolating =>
        \A k \in 1..(Len(path) - 1) : \A i \in 1..Len(end_norm) :
            ShortestAngleDist(path[k + 1][i], end_norm[i]) <= ShortestAngleDist(path[k][i], end_norm[i])

\* C9: a bounded joint whose range is one full turn wide changes by at most
\* its increment from one waypoint to the next (no jump across a limit).
C9_BoundedJointNeverJumps ==
    Interpolating =>
        \A k \in 1..(Len(path) - 1) : \A i \in 1..Len(end_norm) :
            (~continuous_joints[i] /\ max_limits[i] - min_limits[i] = FullTurn)
                => Abs(path[k + 1][i] - path[k][i]) <= inc[i]

\* C7 as stated: when the six vectors differ in length the call fails and the
\* output path still holds what it held before the call.
C7_MismatchLeavesOutput ==
    (ipc = "done" /\ LengthsDiffer) => (iret = "false" /\ path = path_before)

\* C7 as amended: when the six vectors differ in length the call fails and the
\* output path is left empty, whatever it held before the call.
C7_MismatchClearsOutput ==
    (ipc = "done" /\ LengthsDiffer) => (iret = "false" /\ path = <<>>)

C7_Witness ==
    /\ ipc = "done" /\ iret = "false"
    /\ Len(start) = 2 /\ Len(end) = 1
    /\ path_before # <<>>

\* ---- properties of ShortcutPath ----
Returned == spc = "done" /\ sret = "true"

OneCostPerSegment == Len(orig_path_costs) = Len(orig_path) - 1

OriginalCost == Accum(orig_path_costs, Len(orig_path_costs))

IsPrefix(p, q) == Len(p) <= Len(q) /\ p = SubSeq(q, 1, Len(p))

\* C2: with "<=" as the acceptance rule, the announced costs of the committed
\* sub-paths sum to no more than the original segment costs.
C2_CostNeverAboveOriginal ==
    (Returned /\ Len(orig_path) >= 2) => committed_cost <= OriginalCost

\* C3: with no generators every window commits one original segment and moves
\* on, so what has been committed is always a prefix of the original path, at
\* most one commit per segment, and the call returns the original path.
C3_NoGeneratorsKeepPath ==
    (path_generators = 0 /\ Len(orig_path) >= 2 /\ OneCostPerSegment) =>
        /\ IsPrefix(result_traj, orig_path)
        /\ commits <= Len(orig_path) - 1
        /\ spc = "done" => (sret = "true" /\ shortcut_path = orig_path)

\* C6: a path of fewer than two points with a matching cost series yields
\* success and an output equal to the input path.
C6_TrivialPathIsReturned ==
    (spc = "done" /\ Len(orig_path) < 2 /\ OneCostPerSegment) =>
        (sret = "true" /\ shortcut_path = orig_path)

\* C8: a cost series whose length is not len(path) - 1 makes the call fail
\* without invoking a generator and without touching the output.
C8_BadCostsFailUntouched ==
    (spc = "done" /\ ~OneCostPerSegment) =>
        (sret = "false" /\ gen_calls = 0 /\ shortcut_path = shortcut_before)

C8_Witness ==
    /\ spc = "done" /\ sret = "false"
    /\ orig_path = <<>> /\ orig_path_costs = <<>>
    /\ path_generators > 0
    /\ shortcut_before # <<>>

\* C10: with generators that answer with paths from the first requested point
\* to the second, a successful call returns a path from the original first
\* point to the original last point in which every committed sub-path begins
\* where the previous one ended.
C10_OutputSpansAndChains ==
    (Returned /\ Len(orig_path) >= 2) =>
        /\ shortcut_path[1] = orig_path[1]
        /\ Last(shortcut_path) = Last(orig_path)
        /\ chained

====
